---------------------------- MODULE Spec2Model ----------------------------
(***************************************************************************)
(* Model of the MIDI event classifier / trace formatter of src/event.cpp.  *)
(* An Event record (type, meta, note, velocity, tempo, totalTime, delta)   *)
(* is constructed by the reader and then classified and formatted.  C++    *)
(* std::string values are TLA+ strings; Len, \o and SubSeq act on them.    *)
(***************************************************************************)
EXTENDS Integers, Sequences, FiniteSets, TLC

(***************************************************************************)
(* Bounds of the model.                                                    *)
(***************************************************************************)
\* longest raw-byte window handed to print
MaxLen == 15
\* largest column width handed to a free-standing formatColumn call
MaxWidth == 7

(***************************************************************************)
(* Status-byte constants of event.h (standard MIDI status and meta type    *)
(* bytes).                                                                 *)
(***************************************************************************)
NOTE_OFF == 128
NOTE_ON == 144
KEY_PRESSURE == 160
CONTROL_CHANGE == 176
PROGRAM_CHANGE == 192
CHANNEL_PRESSURE == 208
PITCH_WHEEL_CHANGE == 224
SEQUENCE_NUMBER == 0
TEXT_EVENT == 1
COPYRIGHT == 2
SEQUENCE_NAME == 3
INSTRUMENT == 4
LYRIC == 5
MARKER_TEXT == 6
CUE_POINT == 7
MIDI_CHANNEL_PREFIX == 32
END_OF_TRACK == 47
TEMPO == 81
SMPTE_OFFSET == 84
TIME_SIGNATURE == 88
KEY_SIGNATURE == 89
SEQUENCER_SPECIFIC == 127

\* the values of a uint8_t field
Byte == 0..255

(***************************************************************************)
(* Integer and string primitives.                                          *)
(***************************************************************************)
\* bitwise AND of two non-negative integers, bit by bit
RECURSIVE BitAnd(_, _)
BitAnd(a, b) ==
    IF a = 0 \/ b = 0 THEN 0
    ELSE (a % 2) * (b % 2) + 2 * BitAnd(a \div 2, b \div 2)

DecDigits == <<"0", "1", "2", "3", "4", "5", "6", "7", "8", "9">>

HexDigits == <<"0", "1", "2", "3", "4", "5", "6", "7", "8", "9",
               "a", "b", "c", "d", "e", "f">>

RECURSIVE NatToString(_)
NatToString(n) ==
    IF n < 10 THEN DecDigits[n + 1]
    ELSE NatToString(n \div 10) \o DecDigits[(n % 10) + 1]

\* std::to_string(int)
to_string(n) == IF n < 0 THEN "-" \o NatToString(0 - n) ELSE NatToString(n)

RECURSIVE NatToHex(_)
NatToHex(n) ==
    IF n < 16 THEN HexDigits[n + 1]
    ELSE NatToHex(n \div 16) \o HexDigits[(n % 16) + 1]

\* Log::to_hex_string(num, prefix): with the prefix, "0x" and the hex digits;
\* without it, two zero-padded lower-case hex digits of a byte
to_hex_string(num, prefix) ==
    IF prefix THEN "0x" \o NatToHex(num)
    ELSE HexDigits[(num \div 16) + 1] \o HexDigits[(num % 16) + 1]

\* std::string::replace(pos, count, str) for pos <= size; count is clipped
\* to the end of the string
replace(str, pos, count, by) ==
    LET n == IF count < Len(str) - pos THEN count ELSE Len(str) - pos
    IN  SubSeq(str, 1, pos) \o by \o SubSeq(str, pos + n + 1, Len(str))

(***************************************************************************)
(* Event::getEventName                                                     *)
(***************************************************************************)
\* the switch over type and the fallback after it
eventNameSwitch(t) ==
    CASE t = NOTE_OFF -> "Note off"
      [] t = NOTE_ON -> "Note on"
      [] t = KEY_PRESSURE -> "Polyphonic key pressure"
      [] t = CONTROL_CHANGE -> "Control change"
      [] t = PROGRAM_CHANGE -> "Program change"
      [] t = CHANNEL_PRESSURE -> "Channel pressure"
      [] t = PITCH_WHEEL_CHANGE -> "Pitch wheel change"
      [] t = SEQUENCE_NUMBER -> "Sequence number"
      [] t = TEXT_EVENT -> "Text event"
      [] t = COPYRIGHT -> "Copyright notice"
      [] t = SEQUENCE_NAME -> "Sequence or track name"
      [] t = INSTRUMENT -> "Instrument name"
      [] t = LYRIC -> "Lyric text"
      [] t = MARKER_TEXT -> "Marker text"
      [] t = CUE_POINT -> "Cue point"
      [] t = MIDI_CHANNEL_PREFIX -> "MIDI channel prefix assignment"
      [] t = END_OF_TRACK -> "End of track"
      [] t = TEMPO -> "Tempo setting"
      [] t = SMPTE_OFFSET -> "SMPTE offset"
      [] t = TIME_SIGNATURE -> "Time signature"
      [] t = KEY_SIGNATURE -> "Key signature"
      [] t = SEQUENCER_SPECIFIC -> "Sequencer specific event"
      [] OTHER -> "Unknown event type"

\* the system-message test compares with the wrong nibble value
getEventName_WrongMask(t) ==
    IF BitAnd(t, 240) = 15 THEN "System message" ELSE eventNameSwitch(t)

getEventName(t) ==
    IF BitAnd(t, 240) = 240 THEN "System message" ELSE eventNameSwitch(t)

(***************************************************************************)
(* Event::getEventLength                                                   *)
(***************************************************************************)
\* Note On given the length of its two data bytes, a case the table omits
getEventLength_NoteOnTabulated(t) ==
    CASE t = NOTE_ON -> 2
      [] t = KEY_PRESSURE -> 2
      [] t = CONTROL_CHANGE -> 2
      [] t = PROGRAM_CHANGE -> 1
      [] t = CHANNEL_PRESSURE -> 1
      [] t = PITCH_WHEEL_CHANGE -> 2
      [] t = SEQUENCE_NUMBER -> 2
      [] t = MIDI_CHANNEL_PREFIX -> 1
      [] t = END_OF_TRACK -> 0
      [] t = TEMPO -> 3
      [] t = SMPTE_OFFSET -> 5
      [] t = TIME_SIGNATURE -> 4
      [] t = KEY_SIGNATURE -> 2
      [] OTHER -> 0 - 1

getEventLength(t) ==
    CASE t = KEY_PRESSURE -> 2
      [] t = CONTROL_CHANGE -> 2
      [] t = PROGRAM_CHANGE -> 1
      [] t = CHANNEL_PRESSURE -> 1
      [] t = PITCH_WHEEL_CHANGE -> 2
      [] t = SEQUENCE_NUMBER -> 2
      [] t = MIDI_CHANNEL_PREFIX -> 1
      [] t = END_OF_TRACK -> 0
      [] t = TEMPO -> 3
      [] t = SMPTE_OFFSET -> 5
      [] t = TIME_SIGNATURE -> 4
      [] t = KEY_SIGNATURE -> 2
      [] OTHER -> 0 - 1

(***************************************************************************)
(* Event::getNoteName                                                      *)
(***************************************************************************)
\* the switch over note % 12
pitchClass(k) ==
    CASE k = 0 -> "C"
      [] k = 1 -> "C#"
      [] k = 2 -> "D"
      [] k = 3 -> "D#"
      [] k = 4 -> "E"
      [] k = 5 -> "F"
      [] k = 6 -> "F#"
      [] k = 7 -> "G"
      [] k = 8 -> "G#"
      [] k = 9 -> "A"
      [] k = 10 -> "A#"
      [] k = 11 -> "B"
      [] OTHER -> ""

\* the octave computed without the offset of one
getNoteName_NoOctaveOffset(n) == pitchClass(n % 12) \o to_string(n \div 12)

getNoteName(n) == pitchClass(n % 12) \o to_string((n \div 12) - 1)

(***************************************************************************)
(* Event::stripChannel, Event::getChannel                                  *)
(***************************************************************************)
\* the mask of getChannel used where the mask of stripChannel belongs
stripChannel_LowMask(t) == BitAnd(t, 15)

\* the value  type &= 0xF0  leaves in type
stripChannel(t) == BitAnd(t, 240)

getChannel(t) == BitAnd(t, 15)

(***************************************************************************)
(* Event::formatColumn                                                     *)
(***************************************************************************)
\* the loop stops one space early
RECURSIVE formatColumn_OneShort(_, _)
formatColumn_OneShort(str, w) ==
    IF w - Len(str) > 1 THEN formatColumn_OneShort(str \o " ", w) ELSE str

RECURSIVE formatColumn(_, _)
formatColumn(str, w) ==
    IF w - Len(str) > 0 THEN formatColumn(str \o " ", w) ELSE str

(***************************************************************************)
(* Event::print: the pieces of the row, in the order they are appended.    *)
(***************************************************************************)
\* the loop that assembles the hex dump of file[pos .. pos+len-1]
\* (file is 1-indexed here, so byte pos+i of the code is file[pos+i+1])
RECURSIVE hexContent(_, _, _)
hexContent(f, p, l) ==
    IF l <= 0 THEN ""
    ELSE hexContent(f, p, l - 1) \o to_hex_string(f[p + l], FALSE) \o " "

\* the slice removed is only the overflow beyond 39, the marker not counted
hexColumn_ShortSlice(f, p, l) ==
    LET content == hexContent(f, p, l)
    IN  formatColumn(IF Len(content) > 39
                     THEN replace(content, 27, Len(content) - 39, "[...]")
                     ELSE content, 39)

\* the hex-dump column: truncation of the content, then padding to 39
hexColumn(f, p, l) ==
    LET content == hexContent(f, p, l)
    IN  formatColumn(IF Len(content) > 39
                     THEN replace(content, 27, Len(content) - 34, "[...]")
                     ELSE content, 39)

\* the channel-or-blank column
channelColumn(m, t) ==
    IF m THEN "          "
    ELSE formatColumn("Channel " \o to_string(getChannel(t)), 10)

\* the note column padded to 8 instead of 9
trailingField_NarrowNote(t, n, vel, tmp) ==
    IF t = NOTE_ON \/ t = NOTE_OFF
    THEN formatColumn("Note " \o getNoteName(n), 8)
         \o "at velocity " \o to_string(vel)
    ELSE IF t = TEMPO
    THEN formatColumn(to_string(tmp), 6) \o " us per quarter note"
    ELSE ""

\* the type-specific trailing field
trailingField(t, n, vel, tmp) ==
    IF t = NOTE_ON \/ t = NOTE_OFF
    THEN formatColumn("Note " \o getNoteName(n), 9)
         \o "at velocity " \o to_string(vel)
    ELSE IF t = TEMPO
    THEN formatColumn(to_string(tmp), 6) \o " us per quarter note"
    ELSE ""

\* the row handed to Log::debug
\* (hex is the hex-dump column, trail the trailing field)
printRow(p, hex, total, dlt, t, m, trail) ==
    formatColumn(to_hex_string(p, TRUE), 6) \o " | "
    \o hex \o "| "
    \o formatColumn(to_string(total), 6) \o " | "
    \o formatColumn(to_string(dlt), 6) \o " | "
    \o formatColumn(getEventName(t), 25) \o " | "
    \o channelColumn(m, t) \o " | "
    \o trail

(***************************************************************************)
(* State.                                                                  *)
(***************************************************************************)
VARIABLES
    type, meta, note, velocity, tempo, totalTime, delta,   \* the Event record
    pos, file, len,   \* the raw-byte window of the event, held by the reader
    type0,       \* the status byte the record was constructed with
    stripped,    \* whether stripChannel has been called on the record
    op,          \* the operation that ran last
    result,      \* its std::string return value
    resultInt,   \* its int return value
    s, width,    \* the arguments of the last formatColumn call
    row,         \* the message handed to Log::debug by the last call
    hexCol,      \* the hex-dump column appended to that row
    trailing     \* the trailing field appended to that row

fields == <<type, meta, note, velocity, tempo, totalTime, delta>>
window == <<pos, file, len>>
vars == <<fields, window, type0, stripped, op, result, resultInt, s, width,
          row, hexCol, trailing>>

(***************************************************************************)
(* Inputs.                                                                 *)
(***************************************************************************)
\* the raw bytes of the file: a Note On event (90 3c 64) at offset 0x10,
\* and enough bytes for a window of MaxLen bytes at either offset
FileBytes ==
    [i \in 1..(MaxLen + 16) |->
        CASE i = 17 -> 144
          [] i = 18 -> 60
          [] i = 19 -> 100
          [] OTHER -> (i * 37 + 107) % 256]

Offsets == {0, 16}

PadTexts == {"", "abc", "abcdef"}

Widths == (0 - 1)..MaxWidth

\* the type bytes of the meta-events
MetaTypes == {SEQUENCE_NUMBER, TEXT_EVENT, COPYRIGHT, SEQUENCE_NAME,
              INSTRUMENT, LYRIC, MARKER_TEXT, CUE_POINT, MIDI_CHANNEL_PREFIX,
              END_OF_TRACK, TEMPO, SMPTE_OFFSET, TIME_SIGNATURE,
              KEY_SIGNATURE, SEQUENCER_SPECIFIC}

Velocities == {0, 127}

Tempos == {0, 99999, 500000, 16777215}

Times == {0, 480, 1234567}

(***************************************************************************)
(* The record after construction by the reader.  The variables op .. trailing*)
(* describe the last call only; a call clears what it does not produce.    *)
(***************************************************************************)
Init ==
    /\ file = FileBytes
    /\ \/ /\ type \in Byte
          /\ meta = FALSE
          /\ note = 60 /\ velocity = 100 /\ tempo = 500000
          /\ totalTime = 480 /\ delta = 480
          /\ pos = 16 /\ len = 3
       \/ /\ type \in MetaTypes
          /\ meta = TRUE
          /\ note = 60 /\ velocity = 100 /\ tempo = 500000
          /\ totalTime = 480 /\ delta = 480
          /\ pos = 0 /\ len = 3
       \/ /\ type \in {NOTE_ON, NOTE_OFF}
          /\ note \in Byte
          /\ meta = FALSE
          /\ velocity \in Velocities
          /\ tempo = 0
          /\ totalTime = 480 /\ delta = 0
          /\ pos = 16 /\ len = 3
       \/ /\ type = NOTE_ON
          /\ meta = FALSE
          /\ note = 69 /\ velocity = 1 /\ tempo = 0
          /\ totalTime = 0 /\ delta = 0
          /\ pos \in Offsets
          /\ len \in 0..MaxLen
       \/ /\ type = TEMPO
          /\ meta = TRUE
          /\ note = 0 /\ velocity = 0
          /\ tempo \in Tempos
          /\ totalTime \in Times
          /\ delta = 480
          /\ pos = 0 /\ len = 6
    /\ type0 = type
    /\ stripped = FALSE
    /\ op = "construct"
    /\ result = "" /\ resultInt = 0
    /\ s = "" /\ width = 0
    /\ row = "" /\ hexCol = "" /\ trailing = ""

ClearArgs == s' = "" /\ width' = 0

ClearRow == row' = "" /\ hexCol' = "" /\ trailing' = ""

(***************************************************************************)
(* Operations.                                                             *)
(***************************************************************************)
GetEventName ==
    /\ op' = "getEventName"
    /\ result' = getEventName(type)
    /\ resultInt' = 0
    /\ ClearArgs /\ ClearRow
    /\ UNCHANGED <<fields, window, type0, stripped>>

GetEventLength ==
    /\ op' = "getEventLength"
    /\ resultInt' = getEventLength(type)
    /\ result' = ""
    /\ ClearArgs /\ ClearRow
    /\ UNCHANGED <<fields, window, type0, stripped>>

GetNoteName ==
    /\ op' = "getNoteName"
    /\ result' = getNoteName(note)
    /\ resultInt' = 0
    /\ ClearArgs /\ ClearRow
    /\ UNCHANGED <<fields, window, type0, stripped>>

GetChannel ==
    /\ op' = "getChannel"
    /\ resultInt' = getChannel(type)
    /\ result' = ""
    /\ ClearArgs /\ ClearRow
    /\ UNCHANGED <<fields, window, type0, stripped>>

StripChannel ==
    /\ op' = "stripChannel"
    /\ type' = stripChannel(type)
    /\ stripped' = TRUE
    /\ result' = "" /\ resultInt' = 0
    /\ ClearArgs /\ ClearRow
    /\ UNCHANGED <<meta, note, velocity, tempo, totalTime, delta>>
    /\ UNCHANGED <<window, type0>>

FormatColumn ==
    \E text \in PadTexts, wd \in Widths :
        /\ op' = "formatColumn"
        /\ s' = text
        /\ width' = wd
        /\ result' = formatColumn(text, wd)
        /\ resultInt' = 0
        /\ ClearRow
        /\ UNCHANGED <<fields, window, type0, stripped>>

\* print with the comparison type == NOTE_ON written as an assignment
EventPrint_AssignsType ==
    /\ pos + len <= Len(file)
    /\ op' = "print"
    /\ hexCol' = hexColumn(file, pos, len)
    /\ trailing' = trailingField(NOTE_ON, note, velocity, tempo)
    /\ row' = printRow(pos, hexCol', totalTime, delta, NOTE_ON, meta, trailing')
    /\ type' = NOTE_ON
    /\ result' = "" /\ resultInt' = 0
    /\ ClearArgs
    /\ UNCHANGED <<meta, note, velocity, tempo, totalTime, delta>>
    /\ UNCHANGED <<window, type0, stripped>>

\* print(pos, file, len), called by the reader with the window of the event
EventPrint ==
    /\ pos + len <= Len(file)
    /\ op' = "print"
    /\ hexCol' = hexColumn(file, pos, len)
    /\ trailing' = trailingField(type, note, velocity, tempo)
    /\ row' = printRow(pos, hexCol', totalTime, delta, type, meta, trailing')
    /\ result' = "" /\ resultInt' = 0
    /\ ClearArgs
    /\ UNCHANGED <<fields, window, type0, stripped>>

Next ==
    \/ GetEventName
    \/ GetEventLength
    \/ GetNoteName
    \/ GetChannel
    \/ StripChannel
    \/ FormatColumn
    \/ EventPrint

Spec == Init /\ [][Next]_vars

(***************************************************************************)
(* Helpers of the properties.                                              *)
(***************************************************************************)
\* sub occurs in str
Contains(str, sub) ==
    \E i \in 1..(Len(str) - Len(sub) + 1) :
        SubSeq(str, i, i + Len(sub) - 1) = sub

\* the characters of str, as one-character strings
Chars(str) == { SubSeq(str, i, i) : i \in 1..Len(str) }

Max(a, b) == IF a > b THEN a ELSE b

DigitChars == {"0", "1", "2", "3", "4", "5", "6", "7", "8", "9"}

DigitValue(c) == CHOOSE d \in 0..9 : DecDigits[d + 1] = c

\* str is a decimal numeral: an optional minus sign, then digits with no
\* leading zero
IsDecimal(str) ==
    LET digits == IF Len(str) > 0 /\ SubSeq(str, 1, 1) = "-"
                  THEN SubSeq(str, 2, Len(str)) ELSE str
    IN  /\ Len(digits) > 0
        /\ Chars(digits) \subseteq DigitChars
        /\ Len(digits) > 1 => SubSeq(digits, 1, 1) # "0"

RECURSIVE ParseNat(_)
ParseNat(str) ==
    IF Len(str) = 0 THEN 0
    ELSE 10 * ParseNat(SubSeq(str, 1, Len(str) - 1))
         + DigitValue(SubSeq(str, Len(str), Len(str)))

\* the value of a decimal numeral
ParseInt(str) ==
    IF SubSeq(str, 1, 1) = "-" THEN 0 - ParseNat(SubSeq(str, 2, Len(str)))
    ELSE ParseNat(str)

(***************************************************************************)
(* C1                                                                      *)
(***************************************************************************)
NameTable ==
    { <<NOTE_OFF, "Note off">>, <<NOTE_ON, "Note on">>,
      <<KEY_PRESSURE, "Polyphonic key pressure">>,
      <<CONTROL_CHANGE, "Control change">>,
      <<PROGRAM_CHANGE, "Program change">>,
      <<CHANNEL_PRESSURE, "Channel pressure">>,
      <<PITCH_WHEEL_CHANGE, "Pitch wheel change">>,
      <<SEQUENCE_NUMBER, "Sequence number">>,
      <<TEXT_EVENT, "Text event">>,
      <<COPYRIGHT, "Copyright notice">>,
      <<SEQUENCE_NAME, "Sequence or track name">>,
      <<INSTRUMENT, "Instrument name">>,
      <<LYRIC, "Lyric text">>,
      <<MARKER_TEXT, "Marker text">>,
      <<CUE_POINT, "Cue point">>,
      <<MIDI_CHANNEL_PREFIX, "MIDI channel prefix assignment">>,
      <<END_OF_TRACK, "End of track">>,
      <<TEMPO, "Tempo setting">>,
      <<SMPTE_OFFSET, "SMPTE offset">>,
      <<TIME_SIGNATURE, "Time signature">>,
      <<KEY_SIGNATURE, "Key signature">>,
      <<SEQUENCER_SPECIFIC, "Sequencer specific event">> }

\* C1: getEventName returns "System message" for every status byte whose
\* high nibble is 0xF; otherwise the name of the table constant the byte
\* equals (22 constants); otherwise "Unknown event type".
C1_NamePrecedence ==
    op = "getEventName" =>
        /\ Cardinality({ e[1] : e \in NameTable }) = 22
        /\ IF type \div 16 = 15
           THEN result = "System message"
           ELSE IF \E e \in NameTable : e[1] = type
           THEN \A e \in NameTable : e[1] = type => result = e[2]
           ELSE result = "Unknown event type"

\* a system byte whose low nibble is set has been named
C1_Witness ==
    op = "getEventName" /\ type = 255 /\ result = "System message"

(***************************************************************************)
(* C2                                                                      *)
(***************************************************************************)
LengthTable ==
    { <<KEY_PRESSURE, 2>>, <<CONTROL_CHANGE, 2>>, <<PROGRAM_CHANGE, 1>>,
      <<CHANNEL_PRESSURE, 1>>, <<PITCH_WHEEL_CHANGE, 2>>,
      <<SEQUENCE_NUMBER, 2>>, <<MIDI_CHANNEL_PREFIX, 1>>,
      <<END_OF_TRACK, 0>>, <<TEMPO, 3>>, <<SMPTE_OFFSET, 5>>,
      <<TIME_SIGNATURE, 4>>, <<KEY_SIGNATURE, 2>> }

\* C2: getEventLength returns the tabulated length for the 12 tabulated
\* types and -1 for every other status byte, Note On, Note Off and the
\* text-bearing meta-events included.
C2_LengthTable ==
    op = "getEventLength" =>
        /\ Cardinality({ e[1] : e \in LengthTable }) = 12
        /\ \A e \in LengthTable : e[1] = type => resultInt = e[2]
        /\ (\A e \in LengthTable : e[1] # type) => resultInt = 0 - 1
        /\ type \in {NOTE_ON, NOTE_OFF, TEXT_EVENT, COPYRIGHT, SEQUENCE_NAME,
                     INSTRUMENT, LYRIC, MARKER_TEXT, CUE_POINT,
                     SEQUENCER_SPECIFIC} => resultInt = 0 - 1

\* the length of an untabulated type (Note On) has been asked for
C2_Witness ==
    op = "getEventLength" /\ type = NOTE_ON /\ resultInt = 0 - 1

(***************************************************************************)
(* C3                                                                      *)
(***************************************************************************)
SharpNames == <<"C", "C#", "D", "D#", "E", "F", "F#", "G", "G#", "A", "A#", "B">>

\* C3: getNoteName returns the sharp pitch-class name at index note % 12,
\* never empty and never a flat, immediately followed by the decimal
\* numeral of note / 12 - 1; 60 -> "C4", 69 -> "A4", 0 -> "C-1", 12 -> "C0".
C3_NoteName ==
    op = "getNoteName" =>
        LET name == SharpNames[(note % 12) + 1]
            octave == SubSeq(result, Len(name) + 1, Len(result))
        IN  /\ Len(name) > 0
            /\ SubSeq(result, 1, Len(name)) = name
            /\ "b" \notin Chars(result)
            /\ IsDecimal(octave)
            /\ ParseInt(octave) = (note \div 12) - 1
            /\ note = 60 => result = "C4"
            /\ note = 69 => result = "A4"
            /\ note = 0 => result = "C-1"
            /\ note = 12 => result = "C0"

\* the lowest note, whose octave is negative, has been named
C3_Witness ==
    op = "getNoteName" /\ note = 0 /\ result = "C-1"

(***************************************************************************)
(* C4                                                                      *)
(***************************************************************************)
\* two hex digits and a space
ByteText(b) == to_hex_string(b, FALSE) \o " "

\* C4: the hex dump has three characters per raw byte.  Up to 13 bytes (39
\* characters) the column holds the dump and no "[...]" marker.  Beyond, the
\* slice at index 27 of length (3 * len - 34) lies inside the dump and the
\* column is exactly 39 characters: the first 27 characters of the dump,
\* "[...]" at index 27, then the last 7 characters of the dump.
C4_HexDumpTruncation ==
    op = "print" =>
        /\ Len(ByteText(file[pos + 1])) = 3
        /\ len <= 13 =>
            /\ ~Contains(hexCol, "[...]")
            /\ Len(hexCol) = 39
            /\ \A i \in 1..len :
                 SubSeq(hexCol, 3 * i - 2, 3 * i) = ByteText(file[pos + i])
            /\ Chars(SubSeq(hexCol, 3 * len + 1, 39)) \subseteq {" "}
        /\ len > 13 =>
            /\ 3 * len - 34 > 0
            /\ 27 + (3 * len - 34) <= 3 * len
            /\ Len(hexCol) = 39
            /\ \A i \in 1..9 :
                 SubSeq(hexCol, 3 * i - 2, 3 * i) = ByteText(file[pos + i])
            /\ SubSeq(hexCol, 28, 32) = "[...]"
            /\ SubSeq(hexCol, 33, 39) =
                 " " \o ByteText(file[pos + len - 1]) \o ByteText(file[pos + len])

\* a window of more than 13 bytes has been formatted
C4_Witness ==
    op = "print" /\ len = 15 /\ SubSeq(hexCol, 28, 32) = "[...]"

(***************************************************************************)
(* C5                                                                      *)
(***************************************************************************)
\* C5 as stated: the trailing field is "Note <note-name>" padded to 9 then
\* "at velocity <velocity>" for Note On / Note Off, the decimal tempo padded
\* to 6 then "us per quarter note" for Tempo, and empty otherwise.
C5_TrailingField_Original ==
    op = "print" =>
        trailing =
            IF type \in {NOTE_ON, NOTE_OFF}
            THEN formatColumn("Note " \o getNoteName(note), 9)
                 \o "at velocity " \o to_string(velocity)
            ELSE IF type = TEMPO
            THEN formatColumn(to_string(tempo), 6) \o "us per quarter note"
            ELSE ""

\* C5 amended: for Tempo the padded tempo is followed by one space and then
\* "us per quarter note"; the field is the end of the row.
C5_TrailingField ==
    op = "print" =>
        LET note9 == "Note " \o SharpNames[(note % 12) + 1]
                     \o to_string((note \div 12) - 1)
            tempo6 == to_string(tempo)
            Spaces(k) == SubSeq("         ", 1, k)
        IN  /\ type \in {NOTE_ON, NOTE_OFF} =>
                trailing = note9 \o Spaces(Max(0, 9 - Len(note9)))
                           \o "at velocity " \o to_string(velocity)
            /\ type = TEMPO =>
                trailing = tempo6 \o Spaces(Max(0, 6 - Len(tempo6)))
                           \o " us per quarter note"
            /\ type \notin {NOTE_ON, NOTE_OFF, TEMPO} => trailing = ""
            /\ SubSeq(row, Len(row) - Len(trailing) + 1, Len(row)) = trailing

\* a Tempo event whose value is shorter than the column has been formatted
C5_Witness ==
    op = "print" /\ type = TEMPO /\ tempo = 99999
    /\ trailing = "99999  us per quarter note"

(***************************************************************************)
(* C6                                                                      *)
(***************************************************************************)
\* C6: getChannel returns the low nibble of type; once stripChannel has been
\* called, whatever the number of calls, type is the original high nibble
\* with a zero low nibble, getChannel returns 0 and a further stripChannel
\* would leave type as it is; channel(0x91) = 1, strip(0x91) = 0x90.
C6_ChannelAndStrip ==
    /\ op = "getChannel" => resultInt = type % 16
    /\ stripped =>
        /\ type \div 16 = type0 \div 16
        /\ type % 16 = 0
        /\ stripChannel(type) = type
        /\ op = "getChannel" => resultInt = 0
    /\ ~stripped => type = type0
    /\ (op = "getChannel" /\ type = 145) => resultInt = 1
    /\ (stripped /\ type0 = 145) => type = 144

\* 0x91 has been stripped and its channel then asked for
C6_Witness ==
    stripped /\ type0 = 145 /\ type = 144 /\ op = "getChannel" /\ resultInt = 0

(***************************************************************************)
(* C7                                                                      *)
(***************************************************************************)
\* C7: no operation changes meta, note, velocity, tempo, totalTime or delta,
\* and only stripChannel changes type.
C7_OnlyStripChangesType ==
    [][ /\ UNCHANGED <<meta, note, velocity, tempo, totalTime, delta>>
        /\ type' # type => op' = "stripChannel"
        /\ op' \in {"getEventName", "getEventLength", "getChannel",
                    "getNoteName", "formatColumn", "print"} => type' = type
      ]_vars

\* a record whose type was changed by stripChannel has then been formatted
C7_Witness ==
    op = "print" /\ stripped /\ type # type0 /\ row # ""

(***************************************************************************)
(* C8                                                                      *)
(***************************************************************************)
\* C8: formatColumn returns the text followed by max(0, width - length)
\* spaces and nothing else: the length is max(length, width), the text is
\* a prefix of the result and is never truncated.
C8_Pad ==
    op = "formatColumn" =>
        /\ Len(result) = Max(Len(s), width)
        /\ Len(result) - Len(s) = Max(0, width - Len(s))
        /\ SubSeq(result, 1, Len(s)) = s
        /\ Chars(SubSeq(result, Len(s) + 1, Len(result))) \subseteq {" "}
        /\ (s = "abc" /\ width = 6) => result = "abc   "
        /\ (s = "abcdef" /\ width = 3) => result = "abcdef"

\* a text shorter than the width has been padded
C8_Witness ==
    op = "formatColumn" /\ s = "abc" /\ width = 6 /\ result = "abc   "

(***************************************************************************)
(* C9                                                                      *)
(***************************************************************************)
KindNames ==
    [k \in 8..14 |->
        CASE k = 8 -> "Note off"
          [] k = 9 -> "Note on"
          [] k = 10 -> "Polyphonic key pressure"
          [] k = 11 -> "Control change"
          [] k = 12 -> "Program change"
          [] k = 13 -> "Channel pressure"
          [] k = 14 -> "Pitch wheel change"]

KindLengths ==
    [k \in 8..14 |->
        CASE k = 8 -> 0 - 1
          [] k = 9 -> 0 - 1
          [] k = 10 -> 2
          [] k = 11 -> 2
          [] k = 12 -> 1
          [] k = 13 -> 1
          [] k = 14 -> 2]

\* C9: for a channel-voice status byte (high nibble 0x8..0xE) on any channel
\* the high nibble alone determines the name and the length.
C9_HighNibbleDetermines ==
    type \div 16 \in 8..14 =>
        /\ op = "getEventName" => result = KindNames[type \div 16]
        /\ op = "getEventLength" => resultInt = KindLengths[type \div 16]

(***************************************************************************)
(* C10                                                                     *)
(***************************************************************************)
\* C10: in the row of a Note On or Note Off event with a note of 0..127,
\* "at velocity" is preceded by a space.
C10_NoteSeparated ==
    (op = "print" /\ type \in {NOTE_ON, NOTE_OFF} /\ note \in 0..127) =>
        /\ Contains(row, "at velocity")
        /\ \A i \in 2..(Len(row) - 10) :
             SubSeq(row, i, i + 10) = "at velocity" =>
                 SubSeq(row, i - 1, i - 1) = " "

=============================================================================
